---- MODULE Spec2Model ----
(***************************************************************************)
(* State-machine model of src/src/main.cpp: the cooperative control loop   *)
(* that drives two servos through the Scroll, Like and Dubious gestures,   *)
(* either on serial commands or from a semi-Markov process.                *)
(*                                                                         *)
(* Each Loop action is one iteration of loop() along one of its return    *)
(* paths, taken after the millis() clock has run for dt since the          *)
(* iteration before.  Time is kept in                                      *)
(* milliseconds on a grid of ClockStep; a delay(ms) inside an iteration    *)
(* advances the clock to the first grid point at or after the requested    *)
(* delay.  Draws of the                                                    *)
(* Arduino random() are nondeterministic choices among representative      *)
(* values of its range.  The angles written to the servos and the log are  *)
(* outputs no code of loop() reads back; the model keeps the state the     *)
(* control flow depends on, the interpolator's positions included.         *)
(***************************************************************************)
EXTENDS Integers, Sequences, FiniteSets, TLC

\* ------------------------------------------------------------------ bounds
ClockStep ==
    200
MaxTime ==
    4600
\* characters the host sends over the serial line in one run
MaxInput ==
    2
\* in a run without a time horizon: characters the host sends, and actions
\* the semi-Markov process takes
MaxLiveInput ==
    1
MaxEvents ==
    2

\* ------------------------------------------------- constants of the program
STATE_AFTER_SCROLL ==
    0
STATE_AFTER_LIKE ==
    1
STATE_AFTER_DUBIOUS ==
    2
ACTION_SCROLL ==
    0
ACTION_LIKE ==
    1
ACTION_DUBIOUS_SCROLL ==
    2
like_step_delay ==
    100
dubious_step_delay ==
    200
dubious_wait_min ==
    500
dubious_wait_max ==
    2000
scroll_step_delays ==
    [i \in 0..4 |-> CASE i = 0 -> 200 [] i = 1 -> 300 [] i = 2 -> 300
                      [] i = 3 -> 0 [] i = 4 -> 200]
\* random(0, 32768) / 32767.0f : the denominator of a uniform draw
UniformDen ==
    32767
\* MAX_DWELL_TIME = 30.0f seconds
MAX_DWELL_TIME ==
    30
States == {STATE_AFTER_SCROLL, STATE_AFTER_LIKE, STATE_AFTER_DUBIOUS}
Actions == {ACTION_SCROLL, ACTION_LIKE, ACTION_DUBIOUS_SCROLL}

\* smm_parameters.h is not part of the sources at hand.  The tables below
\* follow the Transition Model of the specification: one dwell rate and one
\* non-decreasing cumulative table per state.  Rates are <<num, den>> per
\* second, cumulative probabilities are in hundredths.
DWELL_RATE_BY_STATE ==
    [st \in States |-> CASE st = STATE_AFTER_SCROLL -> <<1, 1>>
                         [] st = STATE_AFTER_LIKE -> <<2, 1>>
                         [] st = STATE_AFTER_DUBIOUS -> <<1, 2>>]
CUM_PROB_SCROLL_BY_STATE ==
    [st \in States |-> CASE st = STATE_AFTER_SCROLL -> 60
                         [] st = STATE_AFTER_LIKE -> 70
                         [] st = STATE_AFTER_DUBIOUS -> 50]
CUM_PROB_LIKE_BY_STATE ==
    [st \in States |-> CASE st = STATE_AFTER_SCROLL -> 80
                         [] st = STATE_AFTER_LIKE -> 85
                         [] st = STATE_AFTER_DUBIOUS -> 90]
CumDen ==
    100

\* ------------------------------------------------------------------- state
VARIABLES
    now,                \* millis()
    scroll_active, like_active, dubious_active, knobs_disabled,
    scroll_step, like_step, dubious_step,
    last_step_time, dubious_wait_time,
    current_y, current_z, target_y, target_z, start_y, start_z,
    step_start_time, step_in_progress,
    event_counter, current_state, use_like2_variant,
    smm_mode_active, smm_waiting, smm_wait_start, smm_wait_duration,
    state_transitions,
    move_duration_ms,   \* duration_ms argument of the last smoothMoveServos
    received,           \* characters read from the serial line so far
    \* Observations of the run, read by no action:
    origin,             \* who started the last gesture: "manual" or "smm"
    permanent,          \* a Like or Dubious gesture has run its terminal step
                        \* ("Knob control permanently disabled.") and no
                        \* reset command has been processed since
    ran,                \* blocks of loop() executed by the last iteration
    upd,                \* what updateServoPositions did in the last iteration
    gate_elapsed,       \* current_time - last_step_time as the Like or Dubious
                        \* sequencer read it in the last iteration, else -1
    smm_obs,            \* the flags as the semi-Markov block found them when
                        \* it advanced in the last iteration
    cmd_obs,            \* the character the last iteration read, the gesture
                        \* flags the command block left and, for a manual
                        \* trigger or a reset, the state it left
    smm_cycle,          \* dwells sampled so far, the state whose rate the last
                        \* dwell used and the state the last selection used
    \* Inputs and result of select_next_action taken alone (SpecSelect):
    sel_state, sel_r, sel_action,
    \* Inputs and results of sample_exponential and of the conversion of the
    \* dwell to milliseconds, taken alone (SpecDwell):
    dw_rate, dw_u, dw_time, dw_ms,
    \* How the run keeps the clock finite: FALSE, it ends at MaxTime; TRUE,
    \* it has no horizon and each iteration re-bases the clock (SpecLive)
    rebased

progVars == <<now, scroll_active, like_active, dubious_active, knobs_disabled,
              scroll_step, like_step, dubious_step, last_step_time,
              dubious_wait_time, current_y, current_z, target_y, target_z,
              start_y, start_z, step_start_time, step_in_progress,
              event_counter, current_state, use_like2_variant,
              smm_mode_active, smm_waiting, smm_wait_start,
              smm_wait_duration, state_transitions, move_duration_ms,
              received, origin, permanent, ran, upd, gate_elapsed, smm_obs,
              cmd_obs, smm_cycle>>

selVars == <<sel_state, sel_r, sel_action>>

dwVars == <<dw_rate, dw_u, dw_time, dw_ms>>

vars == <<progVars, selVars, dwVars, rebased>>

\* The program state as one record, so that the functions called by loop()
\* compose in the order the code calls them.
State ==
    [now |-> now, scroll_active |-> scroll_active, like_active |-> like_active,
     dubious_active |-> dubious_active, knobs_disabled |-> knobs_disabled,
     scroll_step |-> scroll_step, like_step |-> like_step,
     dubious_step |-> dubious_step, last_step_time |-> last_step_time,
     dubious_wait_time |-> dubious_wait_time,
     current_y |-> current_y, current_z |-> current_z,
     target_y |-> target_y, target_z |-> target_z,
     start_y |-> start_y, start_z |-> start_z,
     step_start_time |-> step_start_time,
     step_in_progress |-> step_in_progress,
     event_counter |-> event_counter, current_state |-> current_state,
     use_like2_variant |-> use_like2_variant,
     smm_mode_active |-> smm_mode_active, smm_waiting |-> smm_waiting,
     smm_wait_start |-> smm_wait_start,
     smm_wait_duration |-> smm_wait_duration,
     state_transitions |-> state_transitions,
     move_duration_ms |-> move_duration_ms, received |-> received,
     origin |-> origin,
     permanent |-> permanent, ran |-> ran, upd |-> upd,
     gate_elapsed |-> gate_elapsed, smm_obs |-> smm_obs,
     cmd_obs |-> cmd_obs, smm_cycle |-> smm_cycle]

Commit(s) ==
    /\ now' = s.now
    /\ scroll_active' = s.scroll_active
    /\ like_active' = s.like_active
    /\ dubious_active' = s.dubious_active
    /\ knobs_disabled' = s.knobs_disabled
    /\ scroll_step' = s.scroll_step
    /\ like_step' = s.like_step
    /\ dubious_step' = s.dubious_step
    /\ last_step_time' = s.last_step_time
    /\ dubious_wait_time' = s.dubious_wait_time
    /\ current_y' = s.current_y
    /\ current_z' = s.current_z
    /\ target_y' = s.target_y
    /\ target_z' = s.target_z
    /\ start_y' = s.start_y
    /\ start_z' = s.start_z
    /\ step_start_time' = s.step_start_time
    /\ step_in_progress' = s.step_in_progress
    /\ event_counter' = s.event_counter
    /\ current_state' = s.current_state
    /\ use_like2_variant' = s.use_like2_variant
    /\ smm_mode_active' = s.smm_mode_active
    /\ smm_waiting' = s.smm_waiting
    /\ smm_wait_start' = s.smm_wait_start
    /\ smm_wait_duration' = s.smm_wait_duration
    /\ state_transitions' = s.state_transitions
    /\ move_duration_ms' = s.move_duration_ms
    /\ received' = s.received
    /\ origin' = s.origin
    /\ permanent' = s.permanent
    /\ ran' = s.ran
    /\ upd' = s.upd
    /\ gate_elapsed' = s.gate_elapsed
    /\ smm_obs' = s.smm_obs
    /\ cmd_obs' = s.cmd_obs
    /\ smm_cycle' = s.smm_cycle
    /\ UNCHANGED <<selVars, dwVars, rebased>>

\* ------------------------------------------------------------ environment
\* millis() - t for a time stamp t taken earlier.  The subtraction is on
\* unsigned long; every time stamp is an earlier reading of the clock and the
\* clock stays below MaxTime, far from the 32-bit wrap, so it is a - b.
USub(a, b) ==
    a - b

\* delay(ms): the clock has advanced by at least ms, to the next grid point
Delay(ms) ==
    ((ms + ClockStep - 1) \div ClockStep) * ClockStep

\* (int) conversion of a quotient: truncation toward zero
TruncDiv(n, d) ==
    IF n >= 0 THEN n \div d ELSE -((-n) \div d)

\* random(min, max): a value of min..max-1; the two ends and the upper
\* quartile of the range stand for it
random(min, max) ==
    {min, min + (3 * (max - min)) \div 4, max - 1}

NoUpdate ==
    [outcome |-> "none", elapsed |-> 0, requested |-> 0,
     y |-> 0, z |-> 0, ty |-> 0, tz |-> 0]

NoSmm ==
    [advanced |-> FALSE, gesture |-> FALSE, knobs_disabled |-> FALSE]

\* The variables the serial command block can write, and the state of the
\* semi-Markov process
CommandView(s) ==
    [scroll_active |-> s.scroll_active, like_active |-> s.like_active,
     dubious_active |-> s.dubious_active,
     knobs_disabled |-> s.knobs_disabled,
     scroll_step |-> s.scroll_step, like_step |-> s.like_step,
     dubious_step |-> s.dubious_step,
     last_step_time |-> s.last_step_time,
     dubious_wait_time |-> s.dubious_wait_time,
     smm_mode_active |-> s.smm_mode_active, smm_waiting |-> s.smm_waiting,
     smm_wait_start |-> s.smm_wait_start,
     smm_wait_duration |-> s.smm_wait_duration,
     current_state |-> s.current_state, event_counter |-> s.event_counter,
     state_transitions |-> s.state_transitions]

\* What cmd_obs holds for the view when the character read, if any, is
\* neither a manual trigger nor a reset
NoView ==
    [scroll_active |-> FALSE, like_active |-> FALSE,
     dubious_active |-> FALSE, knobs_disabled |-> FALSE,
     scroll_step |-> 0, like_step |-> 0, dubious_step |-> 0,
     last_step_time |-> 0, dubious_wait_time |-> 0,
     smm_mode_active |-> FALSE, smm_waiting |-> FALSE,
     smm_wait_start |-> 0, smm_wait_duration |-> 0,
     current_state |-> STATE_AFTER_SCROLL, event_counter |-> 0,
     state_transitions |-> [st \in States |-> 0]]

\* ------------------------------------------------------ motion interpolator
smoothMoveServos(s, new_target_y, new_target_z, duration_ms) ==
    [s EXCEPT !.start_y = s.current_y,
              !.start_z = s.current_z,
              !.target_y = new_target_y,
              !.target_z = new_target_z,
              !.step_start_time = s.now,
              !.step_in_progress = TRUE,
              !.move_duration_ms = duration_ms]

\* the safety check with the bound one too low
scrollStepOutOfBounds_OffByOne(s) ==
    s.scroll_step >= 4

\* the safety check on scroll_step before scroll_step_delays is indexed
scrollStepOutOfBounds(s) ==
    s.scroll_step >= 5

updateServoPositions(s) ==
    IF ~s.step_in_progress THEN s
    ELSE
      LET elapsed == USub(s.now, s.step_start_time)
          seen(o, t) == [outcome |-> o, elapsed |-> elapsed,
                         requested |-> s.move_duration_ms,
                         y |-> t.current_y, z |-> t.current_z,
                         ty |-> t.target_y, tz |-> t.target_z]
      IN
      IF scrollStepOutOfBounds(s)
      THEN LET t == [s EXCEPT !.step_in_progress = FALSE]
           IN  [t EXCEPT !.upd = seen("guard", t)]
      ELSE
        LET duration == scroll_step_delays[s.scroll_step] IN
        IF elapsed >= duration
        THEN LET t == [s EXCEPT !.current_y = s.target_y,
                                !.current_z = s.target_z,
                                !.step_in_progress = FALSE]
             IN  [t EXCEPT !.upd = seen("snap", t)]
        ELSE
          \* progress = elapsed / duration, as an exact fraction
          LET y == s.start_y
                     + TruncDiv((s.target_y - s.start_y) * elapsed, duration)
              z == s.start_z
                     + TruncDiv((s.target_z - s.start_z) * elapsed, duration)
              t == [s EXCEPT !.current_y = y, !.current_z = z]
          IN  [t EXCEPT !.upd = seen("interp", t)]

\* ------------------------------------------------------- gesture sequencers
\* executeScroll whose terminal case neither resets scroll_step nor returns
\* before the increment
executeScroll_NoReset(s) ==
    LET u0 == updateServoPositions(s)
        u == [u0 EXCEPT !.ran = @ \cup {"scroll"}]
        next(t) == [t EXCEPT !.scroll_step = u.scroll_step + 1]
    IN
    IF u.step_in_progress THEN u
    ELSE CASE u.scroll_step = 0 ->
                next(smoothMoveServos(u, 142, 142, scroll_step_delays[0]))
           [] u.scroll_step = 1 ->
                next(smoothMoveServos(u, 110, 142, scroll_step_delays[1]))
           [] u.scroll_step = 2 ->
                next(smoothMoveServos(u, 90, 100, scroll_step_delays[2]))
           [] u.scroll_step = 3 ->
                next(smoothMoveServos(u, 147, 100, scroll_step_delays[3]))
           [] u.scroll_step = 4 ->
                next([u EXCEPT !.scroll_active = FALSE])
           [] OTHER -> next(u)

executeScroll(s) ==
    LET u0 == updateServoPositions(s)
        u == [u0 EXCEPT !.ran = @ \cup {"scroll"}]
        next(t) == [t EXCEPT !.scroll_step = u.scroll_step + 1]
    IN
    IF u.step_in_progress THEN u
    ELSE CASE u.scroll_step = 0 ->
                next(smoothMoveServos(u, 142, 142, scroll_step_delays[0]))
           [] u.scroll_step = 1 ->
                next(smoothMoveServos(u, 110, 142, scroll_step_delays[1]))
           [] u.scroll_step = 2 ->
                next(smoothMoveServos(u, 90, 100, scroll_step_delays[2]))
           [] u.scroll_step = 3 ->
                next(smoothMoveServos(u, 147, 100, scroll_step_delays[3]))
           [] u.scroll_step = 4 ->
                [u EXCEPT !.scroll_active = FALSE, !.scroll_step = 0]
           [] OTHER -> next(u)

\* the gate with the subtraction of last_step_time forgotten
stepDue_NoSubtract(s, current_time, delay) ==
    current_time >= delay

\* current_time - last_step_time >= delay, the gate of Like and Dubious
stepDue(s, current_time, delay) ==
    USub(current_time, s.last_step_time) >= delay

executeLike(s) ==
    LET current_time == s.now
        r == [s EXCEPT !.ran = @ \cup {"like"},
                       !.gate_elapsed = USub(current_time, s.last_step_time)]
        next(t) == [t EXCEPT !.like_step = r.like_step + 1,
                             !.last_step_time = current_time]
    IN
    IF stepDue(r, current_time, like_step_delay)
    THEN CASE r.like_step = 0 ->
                next(r)
           [] r.like_step = 1 ->
                next([r EXCEPT !.now = @ + Delay(100)])
           [] r.like_step = 2 ->
                next(r)
           [] r.like_step = 3 ->
                next([r EXCEPT !.now = @ + Delay(100)])
           [] r.like_step = 4 ->
                [r EXCEPT !.like_active = FALSE,
                          !.knobs_disabled = TRUE, !.like_step = 0,
                          !.permanent = TRUE]
           [] OTHER -> next(r)
    ELSE r

executeLike2(s) ==
    LET current_time == s.now
        r == [s EXCEPT !.ran = @ \cup {"like2"},
                       !.gate_elapsed = USub(current_time, s.last_step_time)]
        next(t) == [t EXCEPT !.like_step = r.like_step + 1,
                             !.last_step_time = current_time]
    IN
    IF stepDue(r, current_time, like_step_delay)
    THEN CASE r.like_step = 0 ->
                next(r)
           [] r.like_step = 1 ->
                next([r EXCEPT !.now = @ + Delay(250)])
           [] r.like_step = 2 ->
                [r EXCEPT !.like_active = FALSE,
                          !.knobs_disabled = TRUE, !.like_step = 0,
                          !.permanent = TRUE]
           [] OTHER -> next(r)
    ELSE r

\* dubiousWaitStep that samples a new wait in every iteration
dubiousWaitStep_Resamples(r, current_time, wait) ==
    [r EXCEPT !.dubious_wait_time = wait,
              !.last_step_time = current_time]

\* dubiousWaitStep without the reset of dubious_wait_time when the wait ends
dubiousWaitStep_KeepsWait(r, current_time, wait) ==
    IF r.dubious_wait_time = 0
    THEN [r EXCEPT !.dubious_wait_time = wait,
                   !.last_step_time = current_time]
    ELSE IF USub(current_time, r.last_step_time) >= r.dubious_wait_time
         THEN [r EXCEPT !.dubious_step = @ + 1,
                        !.last_step_time = current_time]
         ELSE r

\* One of the two random-wait steps of Dubious (dubious_step 3 and 5);
\* wait is the value random(dubious_wait_min, dubious_wait_max + 1) returns
\* if it is called.
dubiousWaitStep(r, current_time, wait) ==
    IF r.dubious_wait_time = 0
    THEN [r EXCEPT !.dubious_wait_time = wait,
                   !.last_step_time = current_time]
    ELSE IF USub(current_time, r.last_step_time) >= r.dubious_wait_time
         THEN [r EXCEPT !.dubious_wait_time = 0,
                        !.dubious_step = @ + 1,
                        !.last_step_time = current_time]
         ELSE r

executeDubious(s, wait) ==
    LET current_time == s.now
        r == [s EXCEPT !.ran = @ \cup {"dubious"},
                       !.gate_elapsed = USub(current_time, s.last_step_time)]
        next(t) == [t EXCEPT !.dubious_step = r.dubious_step + 1,
                             !.last_step_time = current_time]
    IN
    IF stepDue(r, current_time, dubious_step_delay)
    THEN CASE r.dubious_step = 0 ->
                next(r)
           [] r.dubious_step = 1 ->
                next(r)
           [] r.dubious_step = 2 ->
                next(r)
           [] r.dubious_step = 3 ->
                dubiousWaitStep(r, current_time, wait)
           [] r.dubious_step = 4 ->
                next(r)
           [] r.dubious_step = 5 ->
                dubiousWaitStep(r, current_time, wait)
           [] r.dubious_step = 6 ->
                next(r)
           [] r.dubious_step = 7 ->
                [r EXCEPT !.dubious_active = FALSE,
                          !.knobs_disabled = TRUE, !.dubious_step = 0,
                          !.permanent = TRUE]
           [] OTHER -> next(r)
    ELSE r

\* ------------------------------------------------------ semi-Markov process
\* random(0, 32768) / 32767.0f, as the fraction <<k, 32767>>
random_uniform(k) ==
    <<k, UniformDen>>

\* sample_exponential_of without the final test against 0.1
sample_exponential_of_NoFloor(rate, u0) ==
    LET u == IF u0[1] * 10000 <= u0[2] THEN <<1, 10000>> ELSE u0
        sample == IF u[1] * 10000 > 9999 * u[2]
                  THEN <<1, 10>>
                  ELSE <<(u[2] - u[1]) * rate[2], u[2] * rate[1]>>
    IN  IF sample[1] > MAX_DWELL_TIME * sample[2]
        THEN <<MAX_DWELL_TIME, 1>> ELSE sample

\* The dwell in seconds, as a fraction <<num, den>>, that sample_exponential
\* computes from the uniform draw u0; rate is a fraction <<num, den>> too.
sample_exponential_of(rate, u0) ==
    LET u == IF u0[1] * 10000 <= u0[2] THEN <<1, 10000>> ELSE u0
        sample == IF u[1] * 10000 > 9999 * u[2]
                  THEN <<1, 10>>
                  ELSE <<(u[2] - u[1]) * rate[2], u[2] * rate[1]>>
        capped == IF sample[1] > MAX_DWELL_TIME * sample[2]
                  THEN <<MAX_DWELL_TIME, 1>> ELSE sample
    IN  IF capped[1] * 10 < capped[2] THEN <<1, 10>> ELSE capped

sample_exponential(rate, k) ==
    sample_exponential_of(rate, random_uniform(k))

\* (unsigned long)(dwell_time * 1000.0f)
dwellMillis(dwell_time) ==
    TruncDiv(dwell_time[1] * 1000, dwell_time[2])

\* select_next_action with <= for the strict comparisons
select_next_action_NonStrict(state, r) ==
    IF r[1] * CumDen <= CUM_PROB_SCROLL_BY_STATE[state] * r[2]
    THEN ACTION_SCROLL
    ELSE IF r[1] * CumDen <= CUM_PROB_LIKE_BY_STATE[state] * r[2]
         THEN ACTION_LIKE
         ELSE ACTION_DUBIOUS_SCROLL

\* r is the draw of random_uniform, a fraction <<num, den>>
select_next_action(state, r) ==
    IF r[1] * CumDen < CUM_PROB_SCROLL_BY_STATE[state] * r[2]
    THEN ACTION_SCROLL
    ELSE IF r[1] * CumDen < CUM_PROB_LIKE_BY_STATE[state] * r[2]
         THEN ACTION_LIKE
         ELSE ACTION_DUBIOUS_SCROLL

\* execute_smm_action counting the transition after current_state is set
execute_smm_action_CountsNewState(s, action_code, coin) ==
    LET c == [s EXCEPT !.event_counter = @ + 1]
        count(st) == [c EXCEPT !.state_transitions[st] = @ + 1]
    IN
    CASE action_code = ACTION_SCROLL ->
           [count(STATE_AFTER_SCROLL) EXCEPT
                     !.scroll_active = TRUE, !.scroll_step = 0,
                     !.knobs_disabled = TRUE,
                     !.current_state = STATE_AFTER_SCROLL,
                     !.origin = "smm"]
      [] action_code = ACTION_LIKE ->
           [count(STATE_AFTER_LIKE) EXCEPT
                     !.use_like2_variant = (coin = 1),
                     !.like_active = TRUE, !.like_step = 0,
                     !.last_step_time = s.now,
                     !.knobs_disabled = TRUE,
                     !.current_state = STATE_AFTER_LIKE,
                     !.origin = "smm"]
      [] action_code = ACTION_DUBIOUS_SCROLL ->
           [count(STATE_AFTER_DUBIOUS) EXCEPT
                     !.dubious_active = TRUE, !.dubious_step = 0,
                     !.dubious_wait_time = 0,
                     !.last_step_time = s.now,
                     !.knobs_disabled = TRUE,
                     !.current_state = STATE_AFTER_DUBIOUS,
                     !.origin = "smm"]
      [] OTHER -> c

\* coin is the value random(0, 2) returns if the action is Like
execute_smm_action(s, action_code, coin) ==
    LET c == [s EXCEPT !.event_counter = @ + 1,
                       !.state_transitions[s.current_state] = @ + 1]
    IN
    CASE action_code = ACTION_SCROLL ->
           [c EXCEPT !.scroll_active = TRUE, !.scroll_step = 0,
                     !.knobs_disabled = TRUE,
                     !.current_state = STATE_AFTER_SCROLL,
                     !.origin = "smm"]
      [] action_code = ACTION_LIKE ->
           [c EXCEPT !.use_like2_variant = (coin = 1),
                     !.like_active = TRUE, !.like_step = 0,
                     !.last_step_time = s.now,
                     !.knobs_disabled = TRUE,
                     !.current_state = STATE_AFTER_LIKE,
                     !.origin = "smm"]
      [] action_code = ACTION_DUBIOUS_SCROLL ->
           [c EXCEPT !.dubious_active = TRUE, !.dubious_step = 0,
                     !.dubious_wait_time = 0,
                     !.last_step_time = s.now,
                     !.knobs_disabled = TRUE,
                     !.current_state = STATE_AFTER_DUBIOUS,
                     !.origin = "smm"]
      [] OTHER -> c

\* ------------------------------------------------------------------ loop()
\* The character loop() reads: "none" is Serial.available() = 0.  A character
\* that is no command changes nothing, as "none" does.
Commands ==
    {"none", "s", "l", "d", "m", "r"}

NoGesture(s) ==
    ~s.scroll_active /\ ~s.like_active /\ ~s.dubious_active

\* 's': start Scroll unless a gesture is active
manualScroll(s) ==
    IF NoGesture(s)
    THEN [s EXCEPT !.scroll_active = TRUE, !.knobs_disabled = TRUE,
                   !.scroll_step = 0, !.last_step_time = s.now,
                   !.origin = "manual"]
    ELSE s

\* manualLike without the test that no gesture is active
manualLike_Unguarded(s) ==
    [s EXCEPT !.like_active = TRUE, !.knobs_disabled = TRUE,
              !.like_step = 0, !.last_step_time = s.now,
              !.origin = "manual"]

\* 'l': start Like unless a gesture is active
manualLike(s) ==
    IF NoGesture(s)
    THEN [s EXCEPT !.like_active = TRUE, !.knobs_disabled = TRUE,
                   !.like_step = 0, !.last_step_time = s.now,
                   !.origin = "manual"]
    ELSE s

\* manualDubious without the test that no gesture is active
manualDubious_Unguarded(s) ==
    [s EXCEPT !.dubious_active = TRUE, !.knobs_disabled = TRUE,
              !.dubious_step = 0, !.dubious_wait_time = 0,
              !.last_step_time = s.now, !.origin = "manual"]

\* 'd': start Dubious unless a gesture is active
manualDubious(s) ==
    IF NoGesture(s)
    THEN [s EXCEPT !.dubious_active = TRUE, !.knobs_disabled = TRUE,
                   !.dubious_step = 0, !.dubious_wait_time = 0,
                   !.last_step_time = s.now, !.origin = "manual"]
    ELSE s

\* toggleSmm that leaves the knobs as they are when it activates the mode
toggleSmm_KeepsKnobs(s) ==
    IF ~s.smm_mode_active
    THEN [s EXCEPT !.smm_mode_active = TRUE]
    ELSE [s EXCEPT !.smm_mode_active = FALSE, !.knobs_disabled = FALSE]

\* 'm': toggle the semi-Markov mode
toggleSmm(s) ==
    IF ~s.smm_mode_active
    THEN [s EXCEPT !.smm_mode_active = TRUE, !.knobs_disabled = TRUE]
    ELSE [s EXCEPT !.smm_mode_active = FALSE, !.knobs_disabled = FALSE]

\* resetCommand that leaves the semi-Markov mode as it is
resetCommand_KeepsSmm(s) ==
    [s EXCEPT !.knobs_disabled = FALSE,
              !.scroll_active = FALSE, !.like_active = FALSE,
              !.dubious_active = FALSE, !.permanent = FALSE]

\* 'r': reset and enable the knobs
resetCommand(s) ==
    [s EXCEPT !.knobs_disabled = FALSE, !.smm_mode_active = FALSE,
              !.scroll_active = FALSE, !.like_active = FALSE,
              !.dubious_active = FALSE, !.permanent = FALSE]

\* The serial command block
ProcessCommand(s, input) ==
    CASE input = "s" -> manualScroll(s)
      [] input = "l" -> manualLike(s)
      [] input = "d" -> manualDubious(s)
      [] input = "m" -> toggleSmm(s)
      [] input = "r" -> resetCommand(s)
      [] OTHER -> s

\* Potentiometer control: the smoothed readings go to the servos and the
\* iteration ends with delay(15).  None of it is read by the rest of loop().
Passthrough(s) ==
    [s EXCEPT !.now = @ + Delay(15),
              !.ran = @ \cup {"passthrough"}]

\* the guard of the semi-Markov block asking for enabled knobs
SmmGuard_KnobsEnabled(s) ==
    s.smm_mode_active /\ NoGesture(s) /\ ~s.knobs_disabled

SmmGuard(s) ==
    s.smm_mode_active /\ NoGesture(s) /\ s.knobs_disabled

\* loop(), the branch that samples a dwell; k is the value random() returns
smmDwell(s, k) ==
    LET dwell_rate == DWELL_RATE_BY_STATE[s.current_state]
        dwell_time == sample_exponential(dwell_rate, k)
    IN  [s EXCEPT !.smm_wait_start = s.now,
                  !.smm_wait_duration = dwellMillis(dwell_time),
                  !.smm_waiting = TRUE,
                  !.ran = @ \cup {"smm_dwell"},
                  !.smm_cycle = [@ EXCEPT !.dwells = @ + 1,
                                          !.dwell_state = s.current_state],
                  !.smm_obs = [advanced |-> TRUE, gesture |-> ~NoGesture(s),
                               knobs_disabled |-> s.knobs_disabled]]

\* smmAct that leaves smm_waiting set
smmAct_KeepsWaiting(s, k, coin) ==
    LET w == [s EXCEPT !.ran = @ \cup {"smm_act"},
                       !.smm_cycle.act_state = s.current_state,
                       !.smm_obs = [advanced |-> TRUE,
                                    gesture |-> ~NoGesture(s),
                                    knobs_disabled |-> s.knobs_disabled]]
        action == select_next_action(w.current_state, random_uniform(k))
    IN  execute_smm_action(w, action, coin)

\* loop(), the branch that ends the wait and acts
smmAct(s, k, coin) ==
    LET w == [s EXCEPT !.smm_waiting = FALSE, !.ran = @ \cup {"smm_act"},
                       !.smm_cycle.act_state = s.current_state,
                       !.smm_obs = [advanced |-> TRUE,
                                    gesture |-> ~NoGesture(s),
                                    knobs_disabled |-> s.knobs_disabled]]
        action == select_next_action(w.current_state, random_uniform(k))
    IN  execute_smm_action(w, action, coin)

\* The clock value every iteration of a run without horizon starts from, as
\* the first one does after setup().  It is at least the longest duration
\* the program waits for (dubious_wait_max, a step delay, a dwell at the
\* rates of DWELL_RATE_BY_STATE), so that a time stamp older than it can be
\* moved up to 0 without changing any comparison.
LiveBase ==
    Delay(2000)

\* s with the clock set back to LiveBase and every time stamp with it
Rebase(s) ==
    LET shift == s.now - LiveBase
        back(x) == IF x < shift THEN 0 ELSE x - shift
    IN  [s EXCEPT !.now = LiveBase,
                  !.last_step_time = back(@),
                  !.step_start_time = back(@),
                  !.smm_wait_start = back(@)]

\* The end of an iteration of loop(): s is the state it has computed.  A
\* run with a horizon ends at MaxTime and reads MaxInput characters; a run
\* without one reads MaxLiveInput characters and takes MaxEvents actions of
\* the semi-Markov process.
Finish(s) ==
    \E last \in {s} : \E f \in {IF rebased THEN Rebase(last) ELSE last} :
        /\ IF rebased
           THEN f.event_counter <= MaxEvents /\ f.received <= MaxLiveInput
           ELSE f.now <= MaxTime /\ f.received <= MaxInput
        /\ Commit(f)

\* The rest of an iteration that no sequencer has ended: the semi-Markov
\* block, entered in the state before leaves
SemiMarkovStep(before) ==
    \E s \in {before} :
      IF ~SmmGuard(s) THEN Finish(s)
      ELSE IF ~s.smm_waiting
           THEN \E k \in random(0, 32768) : Finish(smmDwell(s, k))
           ELSE IF USub(s.now, s.smm_wait_start) >= s.smm_wait_duration
                THEN \E k \in random(0, 32768) : \E coin \in random(0, 2) :
                       Finish(smmAct(s, k, coin))
                ELSE Finish(s)

\* loop() up to the end of the serial command block: the clock has run for
\* dt since the iteration before, and input is the character read, if any.
Entry(input, dt) ==
    LET s0 == [State EXCEPT !.now = @ + dt, !.ran = {}, !.upd = NoUpdate,
                            !.gate_elapsed = -1, !.smm_obs = NoSmm,
                            !.received = IF input = "none" THEN @ ELSE @ + 1]
        s1 == ProcessCommand(s0, input)
    IN  [s1 EXCEPT !.cmd_obs =
                     [input |-> input,
                      active |-> <<s1.scroll_active, s1.like_active,
                                   s1.dubious_active>>,
                      after |-> IF input \in {"s", "l", "d", "r"}
                                THEN CommandView(s1) ELSE NoView]]

\* LoopScroll without the return after executeScroll: the iteration goes on
\* to potentiometer control and the semi-Markov block
LoopScroll_NoReturn(input, dt) ==
    \E s1 \in {Entry(input, dt)} :
    /\ s1.scroll_active
    /\ \E e \in {executeScroll(s1)} :
         IF e.knobs_disabled THEN SemiMarkovStep(e)
         ELSE SemiMarkovStep(Passthrough(e))

\* One iteration of loop() that drives the Scroll sequencer and returns
LoopScroll(input, dt) ==
    \E s1 \in {Entry(input, dt)} :
    /\ s1.scroll_active
    /\ Finish(executeScroll(s1))

\* LoopLike without the return after executeLike
LoopLike_NoReturn(input, dt) ==
    \E s1 \in {Entry(input, dt)} :
    /\ ~s1.scroll_active /\ s1.like_active
    /\ SemiMarkovStep(executeLike(s1))

\* One iteration of loop() that drives the Like sequencer and returns
LoopLike(input, dt) ==
    \E s1 \in {Entry(input, dt)} :
    /\ ~s1.scroll_active /\ s1.like_active
    /\ Finish(executeLike(s1))

\* One iteration of loop() that drives the Dubious sequencer and returns
LoopDubious(input, dt) ==
    \E s1 \in {Entry(input, dt)} :
    /\ ~s1.scroll_active /\ ~s1.like_active /\ s1.dubious_active
    /\ \E wait \in random(dubious_wait_min, dubious_wait_max + 1) :
         Finish(executeDubious(s1, wait))

\* One iteration of loop() with no gesture active and the knobs enabled:
\* potentiometer control, then the semi-Markov block
LoopKnobs(input, dt) ==
    \E s1 \in {Entry(input, dt)} :
    /\ NoGesture(s1) /\ ~s1.knobs_disabled
    /\ SemiMarkovStep(Passthrough(s1))

\* One iteration of loop() with no gesture active and the knobs disabled:
\* the semi-Markov block alone
LoopIdle(input, dt) ==
    \E s1 \in {Entry(input, dt)} :
    /\ NoGesture(s1) /\ s1.knobs_disabled
    /\ SemiMarkovStep(s1)

\* The time that passes between two iterations of loop(): less than the
\* clock's grid shows, or one step of it.
ClockDeltas ==
    {0, ClockStep}

\* The state setup() leaves: servos at (180, 0), the clock past the
\* delay(2000), the previous angles read from the potentiometers.
ProgramInit ==
    /\ now = Delay(2000)
    /\ scroll_active = FALSE /\ like_active = FALSE /\ dubious_active = FALSE
    /\ knobs_disabled = FALSE
    /\ scroll_step = 0 /\ like_step = 0 /\ dubious_step = 0
    /\ last_step_time = 0 /\ dubious_wait_time = 0
    /\ current_y = 180 /\ current_z = 0
    /\ target_y = 180 /\ target_z = 0
    /\ start_y = 180 /\ start_z = 0
    /\ step_start_time = 0 /\ step_in_progress = FALSE
    /\ event_counter = 0 /\ current_state = STATE_AFTER_SCROLL
    /\ use_like2_variant = FALSE
    /\ smm_mode_active = FALSE /\ smm_waiting = FALSE
    /\ smm_wait_start = 0 /\ smm_wait_duration = 0
    /\ state_transitions = [st \in States |-> 0]
    /\ move_duration_ms = 0 /\ received = 0 /\ origin = "none"
    /\ permanent = FALSE
    /\ ran = {} /\ upd = NoUpdate /\ gate_elapsed = -1 /\ smm_obs = NoSmm
    /\ cmd_obs = [input |-> "none", active |-> <<FALSE, FALSE, FALSE>>,
                  after |-> NoView]
    /\ smm_cycle = [dwells |-> 0, dwell_state |-> STATE_AFTER_SCROLL,
                    act_state |-> STATE_AFTER_SCROLL]

Init ==
    /\ ProgramInit
    /\ sel_state = STATE_AFTER_SCROLL /\ sel_r = <<0, 1>> /\ sel_action = -1
    /\ dw_rate = <<1, 1>> /\ dw_u = <<0, 1>> /\ dw_time = <<0, 1>>
    /\ dw_ms = -1
    /\ rebased = FALSE

Next ==
    \E input \in Commands : \E dt \in ClockDeltas :
        \/ LoopScroll(input, dt)
        \/ LoopLike(input, dt)
        \/ LoopDubious(input, dt)
        \/ LoopKnobs(input, dt)
        \/ LoopIdle(input, dt)

Spec ==
    Init /\ [][Next]_vars

\* ------------------------------------------------- runs without a horizon
\* The same program with the clock re-based at the end of every iteration:
\* a run goes on for as long as the loop is called.
InitLive ==
    /\ ProgramInit
    /\ sel_state = STATE_AFTER_SCROLL /\ sel_r = <<0, 1>> /\ sel_action = -1
    /\ dw_rate = <<1, 1>> /\ dw_u = <<0, 1>> /\ dw_time = <<0, 1>>
    /\ dw_ms = -1
    /\ rebased = TRUE

\* An iteration of loop() that starts after the clock has advanced and
\* finds no character on the serial line
Tick ==
    \/ LoopScroll("none", ClockStep)
    \/ LoopLike("none", ClockStep)
    \/ LoopDubious("none", ClockStep)
    \/ LoopKnobs("none", ClockStep)
    \/ LoopIdle("none", ClockStep)

\* loop() is called again and again and millis() keeps advancing, and the
\* host sends finitely many characters: such an iteration is taken whenever
\* it stays possible.
SpecLive ==
    InitLive /\ [][Next]_vars /\ WF_vars(Tick)

\* ------------------------------------------- select_next_action taken alone
\* Draws handed to select_next_action: every hundredth, and values of
\* random_uniform around the thresholds
SelDraws ==
    {<<n, CumDen>> : n \in 0..CumDen}
      \cup {random_uniform(k) : k \in random(0, 32768)}
      \cup {random_uniform(k) : k \in {19660, 19661, 26213, 26214}}

InitSelect ==
    /\ ProgramInit
    /\ sel_state \in States /\ sel_r \in SelDraws /\ sel_action = -1
    /\ dw_rate = <<1, 1>> /\ dw_u = <<0, 1>> /\ dw_time = <<0, 1>>
    /\ dw_ms = -1
    /\ rebased = FALSE

Select ==
    /\ sel_action = -1
    /\ sel_action' = select_next_action(sel_state, sel_r)
    /\ UNCHANGED <<progVars, sel_state, sel_r, dwVars, rebased>>

Redraw ==
    /\ sel_action # -1
    /\ sel_state' \in States /\ sel_r' \in SelDraws /\ sel_action' = -1
    /\ UNCHANGED <<progVars, dwVars, rebased>>

NextSelect ==
    Select \/ Redraw

SpecSelect ==
    InitSelect /\ [][NextSelect]_vars

\* ------------------------------------------- sample_exponential taken alone
\* Rates handed to sample_exponential: the rates of the table, and rates
\* small and large enough for the cap and the floor of the dwell to act
DwellRates ==
    {DWELL_RATE_BY_STATE[st] : st \in States}
      \cup {<<1, 30>>, <<1, 40>>, <<1, 5000>>, <<2, 3>>, <<10, 1>>, <<20, 1>>}

\* Uniform draws: values of random_uniform at both ends of its range, around
\* the tests against 0.0001 and 0.9999 and in the middle, and 0.5
DwellDraws ==
    {random_uniform(k) :
        k \in {0, 1, 3, 4, 16383, 16384, 32763, 32764, 32766, 32767}}
      \cup {<<1, 2>>, <<1, 10000>>, <<9999, 10000>>}

InitDwell ==
    /\ ProgramInit
    /\ sel_state = STATE_AFTER_SCROLL /\ sel_r = <<0, 1>> /\ sel_action = -1
    /\ dw_rate \in DwellRates /\ dw_u \in DwellDraws
    /\ dw_time = <<0, 1>> /\ dw_ms = -1
    /\ rebased = FALSE

SampleDwell ==
    /\ dw_ms = -1
    /\ dw_time' = sample_exponential_of(dw_rate, dw_u)
    /\ dw_ms' = dwellMillis(dw_time')
    /\ UNCHANGED <<progVars, selVars, dw_rate, dw_u, rebased>>

RedrawDwell ==
    /\ dw_ms # -1
    /\ dw_rate' \in DwellRates /\ dw_u' \in DwellDraws
    /\ dw_time' = <<0, 1>> /\ dw_ms' = -1
    /\ UNCHANGED <<progVars, selVars, rebased>>

NextDwell ==
    SampleDwell \/ RedrawDwell

SpecDwell ==
    InitDwell /\ [][NextDwell]_vars

\* ==================================================================== claims

Sequencers ==
    {"scroll", "like", "like2", "dubious"}

\* C1: in every reachable state at most one of scroll_active, like_active
\* and dubious_active is true.
C1_AtMostOneGesture ==
    /\ ~(scroll_active /\ like_active)
    /\ ~(scroll_active /\ dubious_active)
    /\ ~(like_active /\ dubious_active)

\* A second command has been read while the Scroll started by the semi-Markov
\* process is in its third move.
C1_Witness ==
    /\ scroll_active /\ scroll_step = 3 /\ origin = "smm"
    /\ received = 2

\* C2 (as claimed): once a Like or a Dubious gesture has run its terminal
\* step, knobs_disabled stays true until a reset command is processed.
C2_Claim ==
    permanent => knobs_disabled

\* C3: an iteration in which the semi-Markov block samples a dwell or
\* executes an action found no gesture active and knobs_disabled true at the
\* block, and ran no gesture sequencer.
C3_SmmOnlyWhenIdle ==
    /\ smm_obs.advanced <=> (ran \cap {"smm_dwell", "smm_act"} # {})
    /\ smm_obs.advanced =>
         /\ ~smm_obs.gesture
         /\ smm_obs.knobs_disabled
         /\ ran \cap Sequencers = {}
         /\ "passthrough" \notin ran

\* The semi-Markov process has started its second gesture.
C3_Witness ==
    /\ "smm_act" \in ran
    /\ event_counter = 2

\* C4 (as claimed): a move requested with durationMs > 0 is snapped to its
\* target by the first updateServoPositions with elapsed >= durationMs and by
\* none with elapsed < durationMs.
C4_Claim ==
    upd.requested > 0 =>
      /\ upd.outcome = "snap" => upd.elapsed >= upd.requested
      /\ upd.outcome = "interp" => upd.elapsed < upd.requested

\* C5: whenever updateServoPositions ends a move, the position it leaves is
\* the target of the move, and it never ends one through the guard on
\* scroll_step.
C5_EndsOnTarget ==
    /\ upd.outcome # "guard"
    /\ upd.outcome = "snap" => upd.y = upd.ty /\ upd.z = upd.tz

\* The third move of Scroll, from (110, 142) to (90, 100), has been ended.
C5_Witness ==
    /\ upd.outcome = "snap"
    /\ upd.ty = 90 /\ upd.tz = 100
    /\ start_y = 90 /\ start_z = 100 /\ step_in_progress

\* C6: like_step (dubious_step) is incremented only by an iteration whose
\* sequencer read current_time - last_step_time >= like_step_delay
\* (dubious_step_delay), and the increment restarts the delay.
C6_StepTimeGated ==
    [][/\ like_step' > like_step =>
            /\ gate_elapsed' >= like_step_delay
            /\ last_step_time' >= now
       /\ dubious_step' > dubious_step =>
            /\ gate_elapsed' >= dubious_step_delay
            /\ last_step_time' >= now]_vars

\* After its first step, an iteration of Like found the delay not elapsed.
C6_Witness ==
    /\ like_active /\ like_step = 1 /\ "like" \in ran
    /\ gate_elapsed >= 0 /\ gate_elapsed < like_step_delay

C7_WaitInRange ==
    /\ \/ dubious_wait_time = 0
       \/ /\ dubious_wait_time >= dubious_wait_min
          /\ dubious_wait_time <= dubious_wait_max
    /\ dubious_active /\ dubious_wait_time # 0 => dubious_step \in {3, 5}

C7_WaitStep ==
    \* an armed wait is not sampled again
    /\ dubious_wait_time # 0 =>
         dubious_wait_time' \in {dubious_wait_time, 0}
    \* the iteration that samples does not advance
    /\ dubious_wait_time = 0 /\ dubious_wait_time' # 0 =>
         /\ dubious_active' /\ dubious_step' \in {3, 5}
         /\ dubious_step' = dubious_step
    \* a wait step advances only once armed and elapsed, and clears the wait
    /\ dubious_step \in {3, 5} /\ dubious_step' = dubious_step + 1 =>
         /\ dubious_wait_time # 0
         /\ gate_elapsed' >= dubious_wait_time
         /\ dubious_wait_time' = 0

\* C7: each random-wait step of Dubious samples its duration once, in
\* [dubious_wait_min, dubious_wait_max]; iterations before it has elapsed
\* neither sample again nor advance; the advance clears it to 0.
C7_RandomWaitOnce ==
    []C7_WaitInRange /\ [][C7_WaitStep]_vars

\* The second random wait has just ended.
C7_Witness ==
    /\ dubious_active /\ dubious_step = 6 /\ "dubious" \in ran
    /\ gate_elapsed >= dubious_wait_min /\ dubious_wait_time = 0

\* C8 (as claimed): a Like started by the semi-Markov process is driven by
\* executeLike2, and is over within 3 steps, if use_like2_variant is true,
\* and by executeLike otherwise.
C8_Claim ==
    origin = "smm" /\ ran \cap {"like", "like2"} # {} =>
      IF use_like2_variant
      THEN "like2" \in ran /\ like_step <= 2
      ELSE "like" \in ran

\* C9: a semi-Markov action adds 1 to the transition counter of the state
\* held before it and to no other, and sets current_state to the state of
\* the gesture it starts.
C9_CountsPreTransitionState ==
    [][/\ event_counter' # event_counter =>
            /\ event_counter' = event_counter + 1
            /\ state_transitions' =
                 [state_transitions EXCEPT ![current_state] = @ + 1]
            /\ \/ scroll_active' /\ current_state' = STATE_AFTER_SCROLL
               \/ like_active' /\ current_state' = STATE_AFTER_LIKE
               \/ dubious_active' /\ current_state' = STATE_AFTER_DUBIOUS
       /\ state_transitions' # state_transitions =>
            event_counter' # event_counter]_vars

\* The second action, taken from AfterLike, has started a Dubious.
C9_Witness ==
    /\ "smm_act" \in ran /\ event_counter = 2
    /\ state_transitions[STATE_AFTER_SCROLL] = 1
    /\ state_transitions[STATE_AFTER_LIKE] = 1
    /\ current_state = STATE_AFTER_DUBIOUS /\ dubious_active

\* C10: select_next_action returns Scroll iff r is below the state's Scroll
\* threshold, Like iff r is at or above it and below the Like threshold, and
\* DubiousScroll otherwise; with thresholds 0.6 and 0.8 the draws 0.55, 0.75
\* and 0.95 give Scroll, Like and DubiousScroll.
C10_SelectionByThresholds ==
    sel_action # -1 =>
      LET below(c) == sel_r[1] * CumDen < c * sel_r[2]
          scroll == below(CUM_PROB_SCROLL_BY_STATE[sel_state])
          like == ~scroll /\ below(CUM_PROB_LIKE_BY_STATE[sel_state])
      IN
      /\ sel_action \in Actions
      /\ sel_action = ACTION_SCROLL <=> scroll
      /\ sel_action = ACTION_LIKE <=> like
      /\ sel_action = ACTION_DUBIOUS_SCROLL <=> ~scroll /\ ~like
      /\ sel_state = STATE_AFTER_SCROLL =>
           /\ sel_r = <<55, 100>> => sel_action = ACTION_SCROLL
           /\ sel_r = <<75, 100>> => sel_action = ACTION_LIKE
           /\ sel_r = <<95, 100>> => sel_action = ACTION_DUBIOUS_SCROLL

\* The draw 0.75 in state AfterScroll has selected Like.
C10_Witness ==
    /\ sel_state = STATE_AFTER_SCROLL /\ sel_r = <<75, 100>>
    /\ sel_action = ACTION_LIKE

\* ---- fractions <<num, den>> with num >= 0 and den > 0, in lowest terms
RECURSIVE GCD(_, _)
GCD(a, b) ==
    IF b = 0 THEN a ELSE GCD(b, a % b)

Lowest(f) ==
    LET g == GCD(f[1], f[2]) IN <<f[1] \div g, f[2] \div g>>

\* f clamped to [0.1, MAX_DWELL_TIME]
ClampDwell(f) ==
    IF f[1] * 10 < f[2] THEN <<1, 10>>
    ELSE IF f[1] > MAX_DWELL_TIME * f[2] THEN <<MAX_DWELL_TIME, 1>>
    ELSE Lowest(f)

\* (1 - u) / rate
OneMinusOver(u, rate) ==
    <<(u[2] - u[1]) * rate[2], u[2] * rate[1]>>

C11_InRange ==
    /\ dw_time[1] * 10 >= dw_time[2]
    /\ dw_time[1] <= MAX_DWELL_TIME * dw_time[2]
    /\ dw_ms >= 100 /\ dw_ms <= 30000

\* C11 (as claimed): for every uniform draw u and positive rate the dwell is
\* in [0.1, MAX_DWELL_TIME] and equals (1 - u) / rate clamped to that
\* interval (0.5 for u = 0.5 and rate 1, 0.1 when u > 0.9999), and the wait
\* is in [100, 30000] milliseconds.
C11_Claim ==
    dw_ms # -1 =>
      /\ C11_InRange
      /\ Lowest(dw_time) = ClampDwell(OneMinusOver(dw_u, dw_rate))
      /\ dw_u[1] * 10000 > 9999 * dw_u[2] => Lowest(dw_time) = <<1, 10>>
      /\ dw_u = <<1, 2>> /\ dw_rate = <<1, 1>> => Lowest(dw_time) = <<1, 2>>

\* C11 (amended): the dwell is in [0.1, MAX_DWELL_TIME]; it is 0.1 when
\* u > 0.9999 and otherwise (1 - max(u, 0.0001)) / rate clamped to that
\* interval (0.5 for u = 0.5 and rate 1); the wait is in [100, 30000]
\* milliseconds.
C11_DwellClamped ==
    dw_ms # -1 =>
      LET raised == IF dw_u[1] * 10000 < dw_u[2] THEN <<1, 10000>> ELSE dw_u
      IN
      /\ C11_InRange
      /\ Lowest(dw_time) =
           IF dw_u[1] * 10000 > 9999 * dw_u[2] THEN <<1, 10>>
           ELSE ClampDwell(OneMinusOver(raised, dw_rate))
      /\ dw_u = <<1, 2>> /\ dw_rate = <<1, 1>> => Lowest(dw_time) = <<1, 2>>

\* The draw 0 at rate 1 has given a dwell of 0.9999 s, a wait of 999 ms.
C11_Witness ==
    /\ dw_u = <<0, UniformDen>> /\ dw_rate = <<1, 1>>
    /\ dw_time = <<9999, 10000>> /\ dw_ms = 999

SmmBlocks ==
    {"smm_dwell", "smm_act"}

\* C12: an iteration that reads 'r' leaves scroll_active, like_active,
\* dubious_active, smm_mode_active and knobs_disabled false, whatever the
\* state before, and runs no gesture sequencer and no semi-Markov step.
C12_ResetClears ==
    cmd_obs.input = "r" =>
      /\ cmd_obs.active = <<FALSE, FALSE, FALSE>>
      /\ ~cmd_obs.after.smm_mode_active /\ ~cmd_obs.after.knobs_disabled
      /\ ~scroll_active /\ ~like_active /\ ~dubious_active
      /\ ~smm_mode_active /\ ~knobs_disabled
      /\ ran \cap (Sequencers \cup SmmBlocks) = {}

\* A reset has been read in the middle of a Like that the semi-Markov
\* process started: 'm', then 'r' at like_step 2.
C12_Witness ==
    /\ cmd_obs.input = "r" /\ received = 2
    /\ origin = "smm" /\ like_step = 2 /\ event_counter = 1
    /\ ran = {"passthrough"}

\* C13: in every iteration at most one driver runs: a gesture active after
\* the command block has its sequencer run and nothing else; a sequencer
\* runs only for such a gesture; potentiometer control and the semi-Markov
\* block never both run.
C13_OneDriver ==
    /\ cmd_obs.active[1] => ran = {"scroll"}
    /\ ~cmd_obs.active[1] /\ cmd_obs.active[2] =>
         ran \in {{"like"}, {"like2"}}
    /\ ~cmd_obs.active[1] /\ ~cmd_obs.active[2] /\ cmd_obs.active[3] =>
         ran = {"dubious"}
    /\ cmd_obs.active = <<FALSE, FALSE, FALSE>> => ran \cap Sequencers = {}
    /\ ~("passthrough" \in ran /\ ran \cap SmmBlocks # {})

\* A manual Scroll is in its third move in autonomous mode, and the dwell
\* armed before it has elapsed: the iteration ran the Scroll sequencer alone.
C13_Witness ==
    /\ ran = {"scroll"} /\ scroll_step = 3 /\ origin = "manual"
    /\ smm_mode_active /\ smm_waiting /\ knobs_disabled
    /\ USub(now, smm_wait_start) >= smm_wait_duration

\* C16: while loop() keeps being called as the clock advances, every gesture
\* that is active is eventually over, with its flag false and its step index
\* back at 0, unless a reset command arrives first.
C16_GesturesComplete ==
    /\ scroll_active ~>
         ((~scroll_active /\ scroll_step = 0) \/ cmd_obs.input = "r")
    /\ like_active ~>
         ((~like_active /\ like_step = 0) \/ cmd_obs.input = "r")
    /\ dubious_active ~>
         ((~dubious_active /\ dubious_step = 0) \/ cmd_obs.input = "r")

\* A Dubious has run its terminal step after both of its random waits.
C16_Witness ==
    /\ ran = {"dubious"} /\ ~dubious_active /\ dubious_step = 0
    /\ permanent /\ cmd_obs.input = "none"

\* C14: the step indices stay inside their gesture tables, 0 <= scroll_step
\* <= 4, 0 <= like_step <= 4 and 0 <= dubious_step <= 7, so that
\* scroll_step_delays is indexed in range and updateServoPositions never
\* takes its guard on scroll_step.
C14_StepsInRange ==
    /\ scroll_step \in 0..4
    /\ like_step \in 0..4
    /\ dubious_step \in 0..7
    /\ scroll_step \in DOMAIN scroll_step_delays
    /\ upd.outcome \in {"none", "snap", "interp"}

\* Dubious has advanced to its last step, both random waits behind it.
C14_Witness ==
    /\ dubious_active /\ dubious_step = 7 /\ ran = {"dubious"}
    /\ dubious_wait_time = 0

\* C15 (as claimed): current_state names the gesture most recently started,
\* manually or by the semi-Markov process; in particular it names the gesture
\* that is active.
C15_Claim ==
    /\ scroll_active => current_state = STATE_AFTER_SCROLL
    /\ like_active => current_state = STATE_AFTER_LIKE
    /\ dubious_active => current_state = STATE_AFTER_DUBIOUS

\* C17: a manual trigger read while no gesture is active starts the gesture
\* asked for, and only it, at step 0 (Dubious with dubious_wait_time 0) and
\* sets knobs_disabled; read while a gesture is active it changes nothing.
C17_ManualTrigger ==
    [][LET c == cmd_obs'.input
           a == cmd_obs'.after
           b == CommandView(State)
       IN  c \in {"s", "l", "d"} =>
             IF ~scroll_active /\ ~like_active /\ ~dubious_active
             THEN /\ a.scroll_active = (c = "s")
                  /\ a.like_active = (c = "l")
                  /\ a.dubious_active = (c = "d")
                  /\ a.knobs_disabled
                  /\ a.last_step_time >= now /\ a.last_step_time <= now'
                  /\ a.scroll_step = IF c = "s" THEN 0 ELSE b.scroll_step
                  /\ a.like_step = IF c = "l" THEN 0 ELSE b.like_step
                  /\ a.dubious_step = IF c = "d" THEN 0 ELSE b.dubious_step
                  /\ a.dubious_wait_time =
                       IF c = "d" THEN 0 ELSE b.dubious_wait_time
                  /\ a.smm_mode_active = b.smm_mode_active
                  /\ a.smm_waiting = b.smm_waiting
                  /\ a.smm_wait_start = b.smm_wait_start
                  /\ a.smm_wait_duration = b.smm_wait_duration
                  /\ a.current_state = b.current_state
                  /\ a.event_counter = b.event_counter
                  /\ a.state_transitions = b.state_transitions
             ELSE a = b]_vars

\* 'l' has been read in the third move of a manual Scroll, which went on.
C17_Witness ==
    /\ cmd_obs.input = "l" /\ received = 2
    /\ cmd_obs.active = <<TRUE, FALSE, FALSE>>
    /\ scroll_active /\ scroll_step = 3 /\ ~like_active /\ like_step = 0

\* C18: dwells and actions alternate: the dwells sampled are the actions
\* taken or one more, one more exactly while smm_waiting; the state whose
\* rate the pending dwell used is current_state, and an action is selected
\* from the state its dwell used.
C18_DwellActAlternate ==
    /\ smm_cycle.dwells - event_counter \in {0, 1}
    /\ smm_waiting <=> smm_cycle.dwells = event_counter + 1
    /\ smm_waiting => smm_cycle.dwell_state = current_state
    /\ "smm_act" \in ran => smm_cycle.act_state = smm_cycle.dwell_state

\* An action has been taken after a manual Like was started and run to its
\* end during the dwell.
C18_Witness ==
    /\ "smm_act" \in ran /\ event_counter = 1 /\ received = 2
    /\ permanent /\ smm_cycle.dwells = 1

\* C19: in autonomous mode, once no more characters arrive, the
\* semi-Markov process takes its next action, as long as loop() keeps being
\* called as the clock advances; and it takes an action only when no
\* gesture is active.
C19_SmmProgress ==
    /\ \A n \in 0..(MaxEvents - 1) :
         (smm_mode_active /\ received = MaxLiveInput /\ event_counter = n)
           ~> (event_counter = n + 1)
    /\ [][event_counter' # event_counter =>
            /\ ~scroll_active /\ ~like_active /\ ~dubious_active
            /\ scroll_step = 0 /\ like_step = 0 /\ dubious_step = 0]_vars

\* The second action has been taken, after the gesture of the first ended.
C19_Witness ==
    /\ rebased /\ "smm_act" \in ran /\ event_counter = 2
    /\ smm_mode_active /\ received = MaxLiveInput

\* C20: smm_mode_active implies knobs_disabled in every reachable state.
C20_SmmImpliesKnobsDisabled ==
    smm_mode_active => knobs_disabled

\* Autonomous mode has been switched on in the middle of a manual Scroll.
C20_Witness ==
    /\ cmd_obs.input = "m" /\ smm_mode_active /\ knobs_disabled
    /\ scroll_active /\ scroll_step = 2 /\ origin = "manual"

\* C21 (as claimed): an interpolated move is in progress only while Scroll is
\* active, in every reachable state, a reset in the middle of a Scroll move
\* included; so that a Scroll that starts finds no move pending.
C21_Claim ==
    step_in_progress => scroll_active

====
